---- MODULE Spec2Model ----
(***************************************************************************)
(* Model of the auth-sdk React package: AuthProvider (session state held   *)
(* in a useState hook and published through a context), the useAuth /      *)
(* useAuthAPI hooks that read the context, and the LoginForm component     *)
(* with its two local fields and its submit handler.                       *)
(*                                                                         *)
(* JavaScript values of type `string | null` and `T | undefined` are       *)
(* modelled as sequences of length 0 or 1: <<>> is null / undefined and    *)
(* <<v>> is the value v.                                                   *)
(***************************************************************************)
EXTENDS Naturals, Sequences, FiniteSets

\* ---------------------------------------------------------------- bounds
\* Number of form submissions explored.
MaxSubmits == 2

\* Number of consecutive logout calls explored.
MaxLogoutRun == 2

\* Strings typed into the form or passed to login.
Usernames == {"", "alice", "bob"}

Passwords == {"", "pw1", "pw2"}

\* ---------------------------------------------------------------- values
null == <<>>

undefined == << >>

\* A freshly dispatched submit event (React.FormEvent).
SubmitEvent == [defaultPrevented |-> FALSE]

\* JavaScript ToBoolean on a `string | null | undefined` value, as applied
\* by `!!user` and `!context`: null, undefined and "" are falsy.
ToBoolean(v) == v # <<>> /\ v[1] # ""

\* ---------------------------------------------------------------- AuthContext.tsx
\* const [user, setUser] = useState<string | null>(null)
InitialUser == null

\* login = async (username, password) => { setUser(username); }
\* cur is the session before the call; the result is the session after it.
loginIgnoredWhenLoggedIn(u, p, cur) == IF cur # null THEN cur ELSE <<u>>

loginChecksPassword(u, p, cur) == IF p = "" THEN cur ELSE <<u>>

loginSuspended(u, p, cur) == cur

login(u, p, cur) == <<u>>

\* logout = () => setUser(null)
logoutOnlyTruthy(cur) == IF ToBoolean(cur) THEN null ELSE cur

logoutToggles(cur) == IF cur = null THEN <<"">> ELSE null

logout(cur) == null

\* The value AuthContext holds for a consumer: the provider's
\* {user, login, logout} when an AuthProvider is mounted above it, the
\* createContext default (undefined) otherwise.
AuthContext(m, u) == IF m THEN <<[user |-> u]>> ELSE undefined

MissingProviderError == "useAuth must be used within an AuthProvider"

\* useAuth: throws when the context is falsy, returns it otherwise.  An
\* object is always truthy, so only undefined is falsy here.
useAuthNeverThrows(context) ==
    IF context = undefined
    THEN [threw |-> FALSE, error |-> "", value |-> <<[user |-> null]>>]
    ELSE [threw |-> FALSE, error |-> "", value |-> context]

useAuth(context) ==
    IF ~(context # undefined)
    THEN [threw |-> TRUE, error |-> MissingProviderError, value |-> undefined]
    ELSE [threw |-> FALSE, error |-> "", value |-> context]

\* ---------------------------------------------------------------- hooks/useAuth.ts
\* useAuthAPI: { isAuthenticated: !!user, user, login, logout }
useAuthAPI(context) ==
    LET r == useAuth(context)
    IN  IF r.threw
        THEN r
        ELSE [threw |-> FALSE, error |-> "",
              value |-> <<[isAuthenticated |-> ToBoolean(r.value[1].user),
                           user |-> r.value[1].user]>>]

\* Outcome slot of a consumer that has not called the hook.
NotRendered == [threw |-> FALSE, error |-> "", value |-> undefined]

\* ---------------------------------------------------------------- LoginForm.tsx
preventDefault(e) == [e EXCEPT !.defaultPrevented = TRUE]

\* handleSubmit = async (e) => { e.preventDefault(); await login(username, password); }
\* Result: the event after the handler ran and the login calls it made, each
\* tagged with whether the default was already prevented when it was made.
handleSubmitValidates(e, uname, pwd) ==
    LET e1 == preventDefault(e)
    IN  [event |-> e1,
         calls |-> IF uname = "" THEN <<>>
                   ELSE <<[username |-> uname, password |-> pwd,
                           afterPreventDefault |-> e1.defaultPrevented]>>]

handleSubmit(e, uname, pwd) ==
    LET e1 == preventDefault(e)
    IN  [event |-> e1,
         calls |-> <<[username |-> uname, password |-> pwd,
                      afterPreventDefault |-> e1.defaultPrevented]>>]

\* onChange={(e) => setUsername(e.target.value)}
setUsernameAlsoClearsPassword(v, f) == [username |-> v, password |-> ""]

setUsername(v, f) == [f EXCEPT !.username = v]

\* onChange={(e) => setPassword(e.target.value)}
setPassword(v, f) == [f EXCEPT !.password = v]

\* useState('') for both fields.
InitialForm == [username |-> "", password |-> ""]

\* ---------------------------------------------------------------- state
VARIABLES
    mounted,      \* the App tree (AuthProvider > LoginForm, consumers) is mounted
    user,         \* AuthProvider's useState value
    form,         \* LoginForm's two useState values
    facade,       \* outcome of the most recent useAuthAPI() call of a consumer
    pc,           \* handleSubmit: "idle", or "awaiting" the promise of login
    lastCall,     \* the most recent login call since mount, <<>> if none
    submitEvent,  \* the most recently handled submit event, <<>> if none
    submits,      \* number of submit events dispatched to the form
    formCalls,    \* number of login calls made by the form
    logoutRun,    \* length of the run of logout calls ending the call history
    lastEvent     \* kind of the most recent event

vars == <<mounted, user, form, facade, pc, lastCall, submitEvent, submits,
          formCalls, logoutRun, lastEvent>>

\* Re-render of the consumers after a state update.
Render(m, u) == useAuthAPI(AuthContext(m, u))

\* The session after making the login calls cs in order.
RECURSIVE ApplyCalls(_, _)
ApplyCalls(cs, cur) ==
    IF cs = <<>> THEN cur
    ELSE ApplyCalls(Tail(cs), login(Head(cs).username, Head(cs).password, cur))

CallRecord(c, via) ==
    [username |-> c.username, password |-> c.password, via |-> via,
     afterPreventDefault |-> c.afterPreventDefault]

Init ==
    /\ mounted = FALSE
    /\ user = InitialUser
    /\ form = InitialForm
    /\ facade = NotRendered
    /\ pc = "idle"
    /\ lastCall = <<>>
    /\ submitEvent = <<>>
    /\ submits = 0
    /\ formCalls = 0
    /\ logoutRun = 0
    /\ lastEvent = "none"

\* <AuthProvider><LoginForm/></AuthProvider> is mounted: every hook state
\* takes its initial value and the consumers render.
Mount ==
    /\ ~mounted
    /\ mounted' = TRUE
    /\ user' = InitialUser
    /\ form' = InitialForm
    /\ facade' = Render(TRUE, InitialUser)
    /\ lastCall' = <<>>
    /\ submitEvent' = <<>>
    /\ logoutRun' = 0
    /\ lastEvent' = "mount"
    /\ UNCHANGED <<pc, submits, formCalls>>

\* The tree is unmounted: hook state is discarded.
Unmount ==
    /\ mounted
    /\ pc = "idle"
    /\ mounted' = FALSE
    /\ user' = InitialUser
    /\ form' = InitialForm
    /\ facade' = NotRendered
    /\ lastCall' = <<>>
    /\ submitEvent' = <<>>
    /\ logoutRun' = 0
    /\ lastEvent' = "unmount"
    /\ UNCHANGED <<pc, submits, formCalls>>

\* A component calls useAuthAPI() with no AuthProvider above it.
RenderOutside ==
    /\ ~mounted
    /\ facade' = Render(mounted, user)
    /\ lastEvent' = "renderOutside"
    /\ UNCHANGED <<mounted, user, form, pc, lastCall, submitEvent, submits,
                   formCalls, logoutRun>>

\* Change event of the username input.
TypeUsername ==
    /\ mounted
    /\ pc = "idle"
    /\ \E v \in Usernames :
         /\ form' = setUsername(v, form)
         /\ form' # form
    /\ facade' = Render(mounted, user)
    /\ lastEvent' = "typeUsername"
    /\ UNCHANGED <<mounted, user, pc, lastCall, submitEvent, submits,
                   formCalls, logoutRun>>

\* Change event of the password input.
TypePassword ==
    /\ mounted
    /\ pc = "idle"
    /\ \E v \in Passwords :
         /\ form' = setPassword(v, form)
         /\ form' # form
    /\ facade' = Render(mounted, user)
    /\ lastEvent' = "typePassword"
    /\ UNCHANGED <<mounted, user, pc, lastCall, submitEvent, submits,
                   formCalls, logoutRun>>

\* Submit event of the form: handleSubmit runs up to its await, the state
\* update is flushed and the consumers re-render.
Submit ==
    /\ mounted
    /\ pc = "idle"
    /\ submits < MaxSubmits
    /\ LET h == handleSubmit(SubmitEvent, form.username, form.password)
       IN  /\ submitEvent' = <<h.event>>
           /\ user' = ApplyCalls(h.calls, user)
           /\ formCalls' = formCalls + Len(h.calls)
           /\ lastCall' = IF h.calls = <<>> THEN lastCall
                          ELSE <<CallRecord(h.calls[Len(h.calls)], "form")>>
           /\ logoutRun' = IF h.calls = <<>> THEN logoutRun ELSE 0
    /\ submits' = submits + 1
    /\ facade' = Render(mounted, user')
    /\ pc' = "awaiting"
    /\ lastEvent' = "submit"
    /\ UNCHANGED <<mounted, form>>

\* The microtask resuming handleSubmit after `await login(...)`; nothing
\* follows the await.  Microtasks run before the next UI event.
ResumeSubmit ==
    /\ pc = "awaiting"
    /\ pc' = "idle"
    /\ UNCHANGED <<mounted, user, form, facade, lastCall, submitEvent,
                   submits, formCalls, logoutRun, lastEvent>>

\* A consumer calls the facade's login(u, p) directly.
Login ==
    /\ mounted
    /\ pc = "idle"
    /\ \E u \in Usernames, p \in Passwords :
         /\ user' = login(u, p, user)
         /\ lastCall' = <<[username |-> u, password |-> p, via |-> "api",
                           afterPreventDefault |-> FALSE]>>
    /\ facade' = Render(mounted, user')
    /\ logoutRun' = 0
    /\ lastEvent' = "login"
    /\ UNCHANGED <<mounted, form, pc, submitEvent, submits, formCalls>>

\* A consumer calls the facade's logout().
Logout ==
    /\ mounted
    /\ pc = "idle"
    /\ logoutRun < MaxLogoutRun
    /\ user' = logout(user)
    /\ facade' = Render(mounted, user')
    /\ logoutRun' = logoutRun + 1
    /\ lastEvent' = "logout"
    /\ UNCHANGED <<mounted, form, pc, lastCall, submitEvent, submits,
                   formCalls>>

Next ==
    \/ Mount
    \/ Unmount
    \/ RenderOutside
    \/ TypeUsername
    \/ TypePassword
    \/ Submit
    \/ ResumeSubmit
    \/ Login
    \/ Logout

Spec == Init /\ [][Next]_vars

\* ---------------------------------------------------------------- properties
LoggedOutFacade == <<[isAuthenticated |-> FALSE, user |-> null]>>

\* C1: after any login call login(u, p), whether made directly or by the
\* form, the facade reads user == u and isAuthenticated == true, for every
\* string u including the empty string.
C1_LoginAuthenticates ==
    lastEvent \in {"login", "submit"} =>
        /\ facade.value[1].user = <<lastCall[1].username>>
        /\ facade.value[1].isAuthenticated = TRUE

\* C2: while the provider is mounted, isAuthenticated is true exactly when
\* user is not null.
C2_IsAuthenticatedIsPresence ==
    mounted => (facade.value[1].isAuthenticated <=> (user # null))

\* C3: after a logout call, from whatever session state it was made, user
\* is null and isAuthenticated is false.
C3_LogoutClears ==
    lastEvent = "logout" =>
        /\ user = null
        /\ ~facade.threw
        /\ facade.value = LoggedOutFacade

C3_Witness ==
    /\ lastEvent = "logout"
    /\ logoutRun = 1
    /\ lastCall # <<>>
    /\ lastCall[1].username = "alice"
    /\ user = null

\* C4: useAuthAPI called with no provider mounted throws the designated
\* error, returns no value and leaves no session state behind; with a
\* provider mounted it does not throw and returns a value.
C4_ThrowsOutsideProvider ==
    /\ lastEvent = "renderOutside" =>
          /\ facade = [threw |-> TRUE, error |-> MissingProviderError,
                       value |-> undefined]
          /\ ~mounted
          /\ user = InitialUser
          /\ lastCall = <<>>
    /\ mounted => (~facade.threw /\ facade.error = "" /\ facade.value # undefined)

C4_Witness ==
    /\ lastEvent = "renderOutside"
    /\ facade.threw
    /\ facade.error = "useAuth must be used within an AuthProvider"

\* C5: every submission makes exactly one login call, with the form's two
\* fields verbatim, after the event's default was prevented; the form makes
\* no login call in a step that is not a submission.
C5_SubmitCallsLoginOnce ==
    [][ /\ submits' = submits + 1 =>
             /\ formCalls' = formCalls + 1
             /\ lastCall' = <<[username |-> form.username,
                               password |-> form.password,
                               via |-> "form",
                               afterPreventDefault |-> TRUE]>>
             /\ submitEvent' = <<[defaultPrevented |-> TRUE]>>
        /\ formCalls' # formCalls => submits' = submits + 1
      ]_vars

C5_Witness ==
    /\ lastEvent = "submit"
    /\ submits = 1
    /\ formCalls = 1
    /\ lastCall = <<[username |-> "alice", password |-> "pw1", via |-> "form",
                     afterPreventDefault |-> TRUE]>>
    /\ submitEvent = <<[defaultPrevented |-> TRUE]>>

\* C6: a logout call made right after a logout call changes nothing: the
\* state after two calls is the state after one (user null, isAuthenticated
\* false).
C6_LogoutIdempotent ==
    [][ (logoutRun >= 1 /\ logoutRun' = logoutRun + 1) =>
            /\ user' = user
            /\ facade' = facade
            /\ form' = form
            /\ user' = null
            /\ facade'.value = LoggedOutFacade
      ]_vars

C6_Witness ==
    /\ logoutRun = 2
    /\ lastEvent = "logout"
    /\ user = null

\* C7: login does not look at the password: from the current session state,
\* login(u, p1) and login(u, p2) give the same session, user == u, for all
\* u, p1, p2, and after every login call made the session is its username.
C7_NoCredentialCheck ==
    /\ mounted =>
          \A u \in Usernames, p1 \in Passwords, p2 \in Passwords :
              /\ login(u, p1, user) = login(u, p2, user)
              /\ login(u, p1, user) = <<u>>
    /\ lastEvent \in {"login", "submit"} => user = <<lastCall[1].username>>

C7_Witness ==
    /\ lastEvent = "login"
    /\ lastCall[1].password = ""
    /\ lastCall[1].username = "alice"
    /\ user = <<"alice">>

\* C8: the session update of a login call is part of the step that makes
\* the call; while handleSubmit is suspended at its await nothing but its
\* resumption happens; under a mounted provider the session changes only in
\* login and logout calls.
C8_LoginUpdatesWithoutSuspension ==
    [][ /\ (lastCall' # lastCall /\ lastCall' # <<>>) =>
               user' = <<lastCall'[1].username>>
        /\ pc' = "awaiting" =>
               (lastCall' # <<>> /\ user' = <<lastCall'[1].username>>)
        /\ pc = "awaiting" =>
               (pc' = "idle" /\ UNCHANGED <<mounted, user, form, facade,
                                            lastCall, submits, formCalls>>)
        /\ (mounted /\ mounted' /\ user' # user) =>
               lastEvent' \in {"login", "submit", "logout"}
      ]_vars

C8_Witness ==
    /\ pc = "awaiting"
    /\ lastEvent = "submit"
    /\ user = <<"bob">>
    /\ lastCall[1].via = "form"

\* C9: the session is null at mount, and afterwards it is the username of
\* the most recent login call when no logout followed it, null otherwise; a
\* login made while logged in replaces the user.
C9_LastCallWins ==
    /\ lastEvent = "mount" => user = null
    /\ mounted =>
          user = IF lastCall = <<>> \/ logoutRun > 0
                 THEN null
                 ELSE <<lastCall[1].username>>

C9_Witness ==
    /\ mounted
    /\ submits = 1
    /\ form.username = "alice"
    /\ lastEvent = "login"
    /\ logoutRun = 0
    /\ lastCall[1].via = "api"
    /\ user = <<"bob">>

\* C10: a username keystroke changes only the form's username, a password
\* keystroke only the form's password, neither changes the session or the
\* facade; a submission, login or logout leaves both form fields as they
\* were.
C10_FormAndSessionFramed ==
    [][ /\ lastEvent' = "typeUsername" =>
               /\ form'.password = form.password
               /\ user' = user
               /\ facade' = facade
               /\ lastCall' = lastCall
        /\ lastEvent' = "typePassword" =>
               /\ form'.username = form.username
               /\ user' = user
               /\ facade' = facade
               /\ lastCall' = lastCall
        /\ lastEvent' \in {"submit", "login", "logout"} => form' = form
      ]_vars

C10_Witness ==
    /\ lastEvent = "typeUsername"
    /\ form = [username |-> "alice", password |-> "pw1"]
    /\ user = <<"bob">>
    /\ facade.value[1].isAuthenticated

====
